---------------------------- MODULE Spec2Model ----------------------------
(***************************************************************************)
(* Model of the BH1750 CSV light logger (src/dump_light_values.py).        *)
(*                                                                         *)
(* Units.  Time is counted in ticks of 0.1 s, the program's sample_delay:  *)
(* logging_interval = 20.0 s = 200 ticks, the pause after a loop error     *)
(* (time.sleep(1.0)) = 10 ticks.  Lux values are counted in halves of a    *)
(* lux (the sensor's raw / 1.2 is a multiple of 0.5 for every raw count    *)
(* that is a multiple of 3, and such floats are exact); a median of an     *)
(* even number of values is a half-step of that unit, so the operators     *)
(* that return a median return twice its value (the _x2 suffix) and every  *)
(* comparison is cross-multiplied to stay in integers.                     *)
(*                                                                         *)
(* Threads.  The worker thread(s) run _read_and_log_loop; the main thread  *)
(* runs main() -> start(); stop() runs from a signal handler, from the     *)
(* KeyboardInterrupt handler of start(), or by a direct call.  Steps are   *)
(* atomic between two accesses to shared state (self.running, the CSV      *)
(* file, the clock, a sleep).                                              *)
(***************************************************************************)
EXTENDS Integers, Sequences, FiniteSets

VARIABLES
    running,             \* self.running
    include_stats,       \* self.include_stats
    csv,                 \* data rows of the CSV file, after the header row
    now,                 \* time.time(), in ticks
    nworkers,            \* worker threads spawned so far
    wpc,                 \* per worker: position in _read_and_log_loop
    samples,             \* per worker: samples
    iter,                \* per worker: iterations of the for loop completed
    consecutive_errors,  \* per worker: consecutive_errors
    next_time,           \* per worker: next_time
    wake,                \* per worker: end of the sleep / write in progress
    windows,             \* per worker: iterations of the while loop begun
    row,                 \* per worker: the row being written
    mainPc,              \* main thread: position in main() / start()
    exitStatus,          \* exit status of the process (-1: still running)
    stopPc,              \* per calling thread: position in stop()
    reported,            \* the summaries printed by stop(), in order
    \* history variables (not read by any action's guard or effect)
    startIgnored,        \* a call of start() returned at line 144
    stopIgnored,         \* a call of stop() during or after a run returned
                         \* at line 159
    stopAt,              \* time of the first stop request that took effect
    abandon,             \* per worker: window whose sampling a stop request hit
    lastWritten,         \* per worker: window of the last row it appended
    streak,              \* per worker: failed polls since the last success
    fatal,               \* per worker: line 100 was executed
    skipped,             \* per worker: deadline steps that skipped the sleep
    polledAfterStop,     \* per worker: it polled while self.running was False
    \* the aggregator on its own
    readings,            \* input of _aggregate_readings
    result,              \* what was computed from readings
    aggPc

vars == <<running, include_stats, csv, now, nworkers, wpc, samples, iter, consecutive_errors,
          next_time, wake, windows, row, mainPc, exitStatus, stopPc,
          reported, startIgnored, stopIgnored, stopAt, abandon,
          lastWritten, streak, fatal, skipped, polledAfterStop, readings, result, aggPc>>

progVars == <<running, include_stats, csv, now, nworkers, wpc, samples, iter,
              consecutive_errors, next_time, wake, windows, row, mainPc,
              exitStatus, stopPc, reported>>

histVars == <<startIgnored, stopIgnored, stopAt, abandon,
              lastWritten, streak, fatal, skipped, polledAfterStop>>

aggVars == <<readings, result, aggPc>>

---------------------------------------------------------------------------
(* Bounds of the model *)

MaxWorkers == 2
MaxWindows == 2
MaxLen == 5
SlowWrite == 250
RestartHorizon == 203

(* Program constants *)

logging_interval == 200
sample_delay == 1
max_consecutive_errors == 5
error_pause == 10
MadZeroThreshold == 8

readings_per_interval ==
    LET n == (logging_interval \div 80) + 1
        m == IF n < 5 THEN n ELSE 5
    IN  IF m > 1 THEN m ELSE 1

Workers == 1..MaxWorkers

SensorLux == {200}

InputLux == {-1, 155, 196, 200, 202, 204, 10000}

WriteDurations == {0, SlowWrite}

Triggers == {"call", "SIGINT", "SIGTERM", "KeyboardInterrupt"}

---------------------------------------------------------------------------
(* Arithmetic of the aggregator *)

Abs(x) == IF x < 0 THEN 0 - x ELSE x

(* round(num / den) with a tie rounded up: what round() is not *)
round_half_up(num, den) == (2 * num + den) \div (2 * den)

(* round(num / den) as Python 3 rounds a float: to the nearest integer,
   a tie to the even one.  den > 0. *)
round(num, den) ==
    LET q == num \div den
        r == num - q * den
    IN  IF 2 * r < den THEN q
        ELSE IF 2 * r > den THEN q + 1
        ELSE IF q % 2 = 0 THEN q ELSE q + 1

RECURSIVE Insert(_, _)
Insert(x, s) ==
    IF s = << >> THEN <<x>>
    ELSE IF x <= Head(s) THEN <<x>> \o s
    ELSE <<Head(s)>> \o Insert(x, Tail(s))

RECURSIVE sorted(_)
sorted(s) == IF s = << >> THEN << >> ELSE Insert(Head(s), sorted(Tail(s)))

(* statistics.median(data), times two *)
median_x2(data) ==
    LET s == sorted(data)
        n == Len(s)
    IN  IF n % 2 = 1 THEN 2 * s[(n \div 2) + 1]
        ELSE s[n \div 2] + s[(n \div 2) + 1]

RECURSIVE SeqMin(_)
SeqMin(s) ==
    IF Len(s) = 1 THEN s[1]
    ELSE LET m == SeqMin(Tail(s)) IN IF s[1] <= m THEN s[1] ELSE m

RECURSIVE SeqMax(_)
SeqMax(s) ==
    IF Len(s) = 1 THEN s[1]
    ELSE LET m == SeqMax(Tail(s)) IN IF s[1] >= m THEN s[1] ELSE m

RECURSIVE SeqSum(_)
SeqSum(s) == IF s = << >> THEN 0 ELSE Head(s) + SeqSum(Tail(s))

(* floor of the square root of n >= 0, by bisection over lo..hi *)
RECURSIVE IsqrtIn(_, _, _)
IsqrtIn(n, lo, hi) ==
    IF lo >= hi THEN lo
    ELSE LET mid == (lo + hi + 1) \div 2
         IN  IF mid * mid <= n THEN IsqrtIn(n, mid, hi)
             ELSE IsqrtIn(n, lo, mid - 1)

Isqrt(n) == IsqrtIn(n, 0, IF n < 46340 THEN n ELSE 46340)

(* The sum of (s[i] - s[j])^2 over the pairs i < j: n times the sum of the
   squared deviations from the mean. *)
RECURSIVE PairSquares(_)
PairSquares(s) ==
    IF Len(s) <= 1 THEN 0
    ELSE LET d == [k \in 1..(Len(s) - 1) |->
                      (s[1] - s[k + 1]) * (s[1] - s[k + 1])]
         IN  SeqSum(d) + PairSquares(Tail(s))

(* int(round(statistics.stdev(values))) for len(values) > 1.  With the
   values in halves of a lux the sample variance is N / (4 * D) lux^2,
   N = PairSquares(values), D = n * (n - 1); t is the floor of twice the
   standard deviation, and the result is t / 2 rounded, a tie to even. *)
stdev_rounded(values) ==
    LET n  == Len(values)
        N  == PairSquares(values)
        D  == n * (n - 1)
        t  == Isqrt(N \div D)
        j  == t \div 2
    IN  IF t % 2 = 0 THEN j
        ELSE IF N = t * t * D THEN (IF j % 2 = 0 THEN j ELSE j + 1)
        ELSE j + 1

---------------------------------------------------------------------------
(* CSVLightLogger._calculate_stats *)

NoStats == [none |-> TRUE, vmin |-> 0, vmax |-> 0, median |-> 0, stdev |-> 0]

calculate_stats(values) ==
    IF values = << >> THEN NoStats
    ELSE [none   |-> FALSE,
          vmin   |-> round(SeqMin(values), 2),
          vmax   |-> round(SeqMax(values), 2),
          median |-> round(median_x2(values), 4),
          stdev  |-> IF Len(values) > 1 THEN stdev_rounded(values) ELSE 0]

(* CSVLightLogger._aggregate_readings *)

(* Lines 74-75 left out: the threshold is 3.0 * 1.4826 * mad even when mad
   is 0 *)
within_threshold_no_floor(dev_x2, mad_x4) ==
    dev_x2 * 20000 <= 3 * 14826 * mad_x4

(* abs(x - m) <= threshold, with dev_x2 = 2 * abs(x - m) and
   mad_x4 = 4 * mad: threshold is 2.0 when mad == 0 and
   3.0 * 1.4826 * mad otherwise. *)
within_threshold(dev_x2, mad_x4) ==
    IF mad_x4 = 0 THEN dev_x2 <= MadZeroThreshold
    ELSE dev_x2 * 20000 <= 3 * 14826 * mad_x4

(* Line 78 with its comparison inverted and lines 79-80 left out: what
   _aggregate_readings does not do *)
filter_readings_inverted(rs) ==
    LET m_x2   == median_x2(rs)
        devs   == [k \in 1..Len(rs) |-> Abs(2 * rs[k] - m_x2)]
        mad_x4 == median_x2(devs)
        drop(x) == ~within_threshold(Abs(2 * x - m_x2), mad_x4)
    IN  SelectSeq(rs, drop)

filter_readings(rs) ==
    LET m_x2   == median_x2(rs)
        devs   == [k \in 1..Len(rs) |-> Abs(2 * rs[k] - m_x2)]
        mad_x4 == median_x2(devs)
        keep(x) == within_threshold(Abs(2 * x - m_x2), mad_x4)
        filtered == SelectSeq(rs, keep)
    IN  IF filtered = << >> THEN rs ELSE filtered

NoAgg == [none |-> TRUE, raised |-> FALSE, rep |-> 0, filtered |-> << >>]

(* statistics.median raises StatisticsError for an empty list (line 81) *)
AggRaised == [none |-> FALSE, raised |-> TRUE, rep |-> 0, filtered |-> << >>]

aggregate_readings(rs) ==
    IF rs = << >> THEN NoAgg
    ELSE IF Len(rs) = 1
         THEN [none |-> FALSE, raised |-> FALSE, rep |-> round(rs[1], 2),
               filtered |-> <<rs[1]>>]
    ELSE LET filtered == filter_readings(rs)
         IN  IF filtered = << >> THEN AggRaised
             ELSE [none |-> FALSE, raised |-> FALSE,
                   rep |-> round(median_x2(filtered), 4),
                   filtered |-> filtered]

(* Lines 122-127 with valid in the place of filtered: the statistics of the
   raw burst, which the program does not write *)
build_row_raw(valid, t, stats_on) ==
    LET agg   == aggregate_readings(valid)
        stats == calculate_stats(valid)
        ts    == t \div 10
    IN  IF ~stats_on
        THEN [ts |-> ts, lux |-> agg.rep, stats |-> FALSE,
              vmin |-> 0, vmax |-> 0, median |-> 0, stdev |-> 0, count |-> 0]
        ELSE [ts |-> ts, lux |-> agg.rep, stats |-> TRUE,
              vmin |-> stats.vmin, vmax |-> stats.vmax,
              median |-> stats.median, stdev |-> stats.stdev,
              count |-> Len(valid)]

(* The row of lines 118-127, without its iso_timestamp column, which is a
   function of ts.  ts = int(time.time()) in seconds. *)
build_row(valid, t, stats_on) ==
    LET agg   == aggregate_readings(valid)
        stats == calculate_stats(agg.filtered)
        ts    == t \div 10
    IN  IF ~stats_on
        THEN [ts |-> ts, lux |-> agg.rep, stats |-> FALSE,
              vmin |-> 0, vmax |-> 0, median |-> 0, stdev |-> 0, count |-> 0]
        ELSE IF stats.none
        THEN [ts |-> ts, lux |-> agg.rep, stats |-> TRUE,
              vmin |-> agg.rep, vmax |-> agg.rep, median |-> agg.rep,
              stdev |-> 0, count |-> Len(agg.filtered)]
        ELSE [ts |-> ts, lux |-> agg.rep, stats |-> TRUE,
              vmin |-> stats.vmin, vmax |-> stats.vmax,
              median |-> stats.median, stdev |-> stats.stdev,
              count |-> Len(agg.filtered)]

NoRow == [ts |-> 0, lux |-> 0, stats |-> FALSE,
          vmin |-> 0, vmax |-> 0, median |-> 0, stdev |-> 0, count |-> 0]

---------------------------------------------------------------------------
(* The state after CSVLightLogger.__init__ (lines 22-40): the header row is
   written, the signal handlers are installed, no thread runs yet. *)

NoWorker == [w \in Workers |-> 0]

InitProgram(stats) ==
    /\ running = FALSE
    /\ include_stats = stats
    /\ csv = << >>
    /\ now = 0
    /\ nworkers = 0
    /\ wpc = [w \in Workers |-> "none"]
    /\ samples = [w \in Workers |-> << >>]
    /\ iter = NoWorker
    /\ consecutive_errors = NoWorker
    /\ next_time = NoWorker
    /\ wake = NoWorker
    /\ windows = NoWorker
    /\ row = [w \in Workers |-> NoRow]
    /\ mainPc = "ready"
    /\ exitStatus = -1
    /\ stopPc = [c \in {"main", "other"} |-> "idle"]
    /\ reported = << >>

InitHistory ==
    /\ startIgnored = FALSE
    /\ stopIgnored = FALSE
    /\ stopAt = -1
    /\ abandon = NoWorker
    /\ lastWritten = NoWorker
    /\ streak = NoWorker
    /\ fatal = [w \in Workers |-> FALSE]
    /\ skipped = NoWorker
    /\ polledAfterStop = [w \in Workers |-> FALSE]

(* main() with the default command line: statistics are on (line 194,
   include_stats = not args.no_stats). *)
Init ==
    /\ InitProgram(TRUE)
    /\ InitHistory
    /\ readings = << >>
    /\ result = NoAgg
    /\ aggPc = "unused"

Alive == mainPc # "exited"

---------------------------------------------------------------------------
(* CSVLightLogger._read_and_log_loop, worker w *)

(* line 87: while self.running.  Lines 85-86 ran when the thread began. *)
LoopCheck(w) ==
    /\ Alive
    /\ wpc[w] = "loop"
    /\ IF running
       THEN /\ windows[w] < MaxWindows
            /\ wpc' = [wpc EXCEPT ![w] = "poll"]
            /\ samples' = [samples EXCEPT ![w] = << >>]
            /\ iter' = [iter EXCEPT ![w] = 0]
            /\ windows' = [windows EXCEPT ![w] = @ + 1]
       ELSE /\ wpc' = [wpc EXCEPT ![w] = "stopped"]
            /\ UNCHANGED <<samples, iter, windows>>
    /\ UNCHANGED <<running, include_stats, csv, now, nworkers,
                   consecutive_errors, next_time, wake, row, mainPc,
                   exitStatus, stopPc, reported>>
    /\ UNCHANGED histVars
    /\ UNCHANGED aggVars

(* Line 94 left out: the count is kept over a successful poll *)
errors_kept_after_success(errors) == errors

(* line 94: consecutive_errors = 0 *)
errors_after_success(errors) == 0

(* line 98: if consecutive_errors >= self.max_consecutive_errors *)
too_many_errors(errors) == errors >= max_consecutive_errors

(* The worker is at line 92, about to poll: in the first iteration of the
   for loop, or in a later one, when the sleep of line 103 has returned. *)
AtPoll(w) ==
    \/ wpc[w] = "poll"
    \/ /\ wpc[w] = "delay"
       /\ now >= wake[w]
       /\ iter[w] + 1 < readings_per_interval

(* The iteration of the for loop that this poll belongs to (from 0) *)
PollIteration(w) == IF wpc[w] = "poll" THEN iter[w] ELSE iter[w] + 1

(* lines 102-103, after a poll that did not break out of the loop: the sleep
   when samples is still short, else the for loop has ended (a full samples
   list is reached in the last iteration only). *)
AfterPoll(w, got) ==
    /\ iter' = [iter EXCEPT ![w] = PollIteration(w)]
    /\ IF Len(got) < readings_per_interval
       THEN /\ wpc' = [wpc EXCEPT ![w] = "delay"]
            /\ wake' = [wake EXCEPT ![w] = now + sample_delay]
       ELSE /\ wpc' = [wpc EXCEPT ![w] = "check"]
            /\ UNCHANGED wake

(* lines 92-94: read_lux() returns lux *)
PollOk(w, lux) ==
    /\ Alive
    /\ AtPoll(w)
    /\ samples' = [samples EXCEPT ![w] = Append(@, lux)]
    /\ consecutive_errors' =
           [consecutive_errors EXCEPT ![w] = errors_after_success(@)]
    /\ AfterPoll(w, Append(samples[w], lux))
    /\ streak' = [streak EXCEPT ![w] = 0]
    /\ polledAfterStop' =
           [polledAfterStop EXCEPT ![w] = @ \/ ~running]
    /\ UNCHANGED <<running, include_stats, csv, now, nworkers, next_time,
                   windows, row, mainPc, exitStatus, stopPc,
                   reported>>
    /\ UNCHANGED <<startIgnored, stopIgnored, stopAt, abandon, lastWritten,
                   fatal, skipped>>
    /\ UNCHANGED aggVars

(* lines 95-101: read_lux() raises *)
PollFail(w) ==
    /\ Alive
    /\ AtPoll(w)
    /\ consecutive_errors' = [consecutive_errors EXCEPT ![w] = @ + 1]
    /\ streak' = [streak EXCEPT ![w] = @ + 1]
    /\ polledAfterStop' =
           [polledAfterStop EXCEPT ![w] = @ \/ ~running]
    /\ IF too_many_errors(consecutive_errors[w] + 1)
       THEN /\ running' = FALSE
            /\ wpc' = [wpc EXCEPT ![w] = "check"]
            /\ iter' = [iter EXCEPT ![w] = PollIteration(w)]
            /\ fatal' = [fatal EXCEPT ![w] = TRUE]
            /\ UNCHANGED wake
       ELSE /\ AfterPoll(w, samples[w])
            /\ UNCHANGED <<running, fatal>>
    /\ UNCHANGED <<include_stats, csv, now, nworkers, samples, next_time,
                   windows, row, mainPc, exitStatus, stopPc,
                   reported>>
    /\ UNCHANGED <<startIgnored, stopIgnored, stopAt, abandon, lastWritten,
                   skipped>>
    /\ UNCHANGED aggVars

(* line 103: time.sleep(self.sample_delay) returns in the last iteration
   of the for loop, which ends *)
DelayEnd(w) ==
    /\ Alive
    /\ wpc[w] = "delay"
    /\ now >= wake[w]
    /\ iter[w] + 1 >= readings_per_interval
    /\ wpc' = [wpc EXCEPT ![w] = "check"]
    /\ UNCHANGED <<running, include_stats, csv, now, nworkers, samples, iter,
                   consecutive_errors, next_time, wake, windows, row, mainPc,
                   exitStatus, stopPc, reported>>
    /\ UNCHANGED histVars
    /\ UNCHANGED aggVars

(* Line 104-105 left out: the burst is aggregated whatever the flag says *)
burst_never_dropped(run) == FALSE

(* line 104: if not self.running: break *)
burst_is_dropped(run) == ~run

(* Line 107 left out: a row is built whatever the burst holds *)
burst_always_valid(valid) == TRUE

(* line 107: if valid *)
burst_has_valid(valid) == valid # << >>

(* lines 104-128: the end of the burst.  Every sample is a number, so valid
   is samples; _aggregate_readings returns a tuple for a non-empty list
   (it never raises, see C6_FilteredNeverEmpty).
   With a row to write, the append of lines 128-130 begins; it takes d
   ticks. *)
BurstCheck(w, d) ==
    /\ Alive
    /\ wpc[w] = "check"
    /\ IF burst_is_dropped(running)
       THEN /\ wpc' = [wpc EXCEPT ![w] = "stopped"]
            /\ UNCHANGED <<row, wake>>
       ELSE IF burst_has_valid(samples[w])
       THEN /\ wpc' = [wpc EXCEPT ![w] = "writing"]
            /\ row' = [row EXCEPT ![w] = build_row(samples[w], now, include_stats)]
            /\ wake' = [wake EXCEPT ![w] = now + d]
       ELSE /\ wpc' = [wpc EXCEPT ![w] = "deadline"]
            /\ UNCHANGED <<row, wake>>
    /\ UNCHANGED <<running, include_stats, csv, now, nworkers, samples, iter,
                   consecutive_errors, next_time, windows, mainPc,
                   exitStatus, stopPc, reported>>
    /\ UNCHANGED histVars
    /\ UNCHANGED aggVars

(* lines 128-131: the row is appended *)
WriteOk(w) ==
    /\ Alive
    /\ wpc[w] = "writing"
    /\ now >= wake[w]
    /\ csv' = Append(csv, row[w])
    /\ wpc' = [wpc EXCEPT ![w] = "deadline"]
    /\ lastWritten' = [lastWritten EXCEPT ![w] = windows[w]]
    /\ UNCHANGED <<running, include_stats, now, nworkers, samples, iter,
                   consecutive_errors, next_time, wake, windows, row, mainPc,
                   exitStatus, stopPc, reported>>
    /\ UNCHANGED <<startIgnored, stopIgnored, stopAt, abandon,
                   streak, fatal, skipped, polledAfterStop>>
    /\ UNCHANGED aggVars

(* The except clause of lines 138-140 counting the failure as a sensor
   error and halting at the threshold: what it does not do *)
WriteFailCounted(w) ==
    /\ Alive
    /\ wpc[w] = "writing"
    /\ now >= wake[w]
    /\ wpc' = [wpc EXCEPT ![w] = "errpause"]
    /\ wake' = [wake EXCEPT ![w] = now + error_pause]
    /\ consecutive_errors' = [consecutive_errors EXCEPT ![w] = @ + 1]
    /\ running' = (running /\ consecutive_errors[w] + 1 < max_consecutive_errors)
    /\ UNCHANGED <<include_stats, csv, now, nworkers, samples, iter,
                   next_time, windows, row, mainPc,
                   exitStatus, stopPc, reported>>
    /\ UNCHANGED histVars
    /\ UNCHANGED aggVars

(* lines 128-130 raise; lines 138-140: print, time.sleep(1.0) *)
WriteFail(w) ==
    /\ Alive
    /\ wpc[w] = "writing"
    /\ now >= wake[w]
    /\ wpc' = [wpc EXCEPT ![w] = "errpause"]
    /\ wake' = [wake EXCEPT ![w] = now + error_pause]
    /\ UNCHANGED <<running, include_stats, csv, now, nworkers, samples, iter,
                   consecutive_errors, next_time, windows, row, mainPc,
                   exitStatus, stopPc, reported>>
    /\ UNCHANGED histVars
    /\ UNCHANGED aggVars

(* line 140: time.sleep(1.0) returns *)
ErrPauseEnd(w) ==
    /\ Alive
    /\ wpc[w] = "errpause"
    /\ now >= wake[w]
    /\ wpc' = [wpc EXCEPT ![w] = "loop"]
    /\ UNCHANGED <<running, include_stats, csv, now, nworkers, samples, iter,
                   consecutive_errors, next_time, wake, windows, row, mainPc,
                   exitStatus, stopPc, reported>>
    /\ UNCHANGED histVars
    /\ UNCHANGED aggVars

(* Lines 136-137 left out: a deadline in the past is kept *)
next_deadline_no_rebase(deadline, t) ==
    LET advanced == deadline + logging_interval
    IN  [sleep |-> advanced - t > 0, next_time |-> advanced]

(* lines 132-137: the deadline after a window whose deadline base was
   deadline, at time t: whether the worker sleeps, and the new next_time. *)
next_deadline(deadline, t) ==
    LET advanced == deadline + logging_interval
        sleep_for == advanced - t
    IN  IF sleep_for > 0
        THEN [sleep |-> TRUE, next_time |-> advanced]
        ELSE [sleep |-> FALSE, next_time |-> t]

Deadline(w) ==
    /\ Alive
    /\ wpc[w] = "deadline"
    /\ LET d == next_deadline(next_time[w], now)
       IN  /\ next_time' = [next_time EXCEPT ![w] = d.next_time]
           /\ IF d.sleep
              THEN /\ wpc' = [wpc EXCEPT ![w] = "sleep"]
                   /\ wake' = [wake EXCEPT ![w] = d.next_time]
                   /\ UNCHANGED skipped
              ELSE /\ wpc' = [wpc EXCEPT ![w] = "loop"]
                   /\ skipped' = [skipped EXCEPT ![w] = @ + 1]
                   /\ UNCHANGED wake
    /\ UNCHANGED <<running, include_stats, csv, now, nworkers, samples, iter,
                   consecutive_errors, windows, row, mainPc, exitStatus,
                   stopPc, reported>>
    /\ UNCHANGED <<startIgnored, stopIgnored, stopAt, abandon,
                   lastWritten, streak, fatal, polledAfterStop>>
    /\ UNCHANGED aggVars

(* line 135: time.sleep(sleep_for) returns *)
SleepEnd(w) ==
    /\ Alive
    /\ wpc[w] = "sleep"
    /\ now >= wake[w]
    /\ wpc' = [wpc EXCEPT ![w] = "loop"]
    /\ UNCHANGED <<running, include_stats, csv, now, nworkers, samples, iter,
                   consecutive_errors, next_time, wake, windows, row, mainPc,
                   exitStatus, stopPc, reported>>
    /\ UNCHANGED histVars
    /\ UNCHANGED aggVars

---------------------------------------------------------------------------
(* The clock.  Statements take no time; time passes while every live worker
   is in a sleep or in a write, up to the earliest end of one of them.  The
   other threads take their steps at the start or at the end of a sleep: a
   step taken during a sleep finds the program state of its start. *)

Waiting == {"delay", "writing", "sleep", "errpause"}

Spawned == {w \in Workers : wpc[w] # "none"}

Sleepers == {w \in Spawned : wpc[w] \in Waiting}

EarliestWake ==
    LET ws == {wake[w] : w \in Sleepers}
    IN  CHOOSE t \in ws : \A u \in ws : t <= u

Advance(d) ==
    /\ Alive
    /\ Sleepers # {}
    /\ \A w \in Spawned : wpc[w] \in Waiting \cup {"stopped"}
    /\ d >= 1
    /\ now + d <= EarliestWake
    /\ now' = now + d
    /\ UNCHANGED <<running, include_stats, csv, nworkers, wpc, samples, iter,
                   consecutive_errors, next_time, wake, windows, row, mainPc,
                   exitStatus, stopPc, reported>>
    /\ UNCHANGED histVars
    /\ UNCHANGED aggVars

---------------------------------------------------------------------------
(* CSVLightLogger.start, lines 142-150 *)

(* Lines 143-144 left out: start() always spawns *)
start_never_returns_early(run) == FALSE

(* line 143: if self.running: return *)
start_returns_early(run) == run

(* The call of start(): by the main thread (byMain), which then waits in
   the loop of lines 152-153, or by another caller while the main thread is
   in that loop.  The new thread's lines 85-86 are part of the step. *)
start(byMain) ==
    /\ IF start_returns_early(running)
       THEN /\ mainPc' = IF byMain THEN "returned" ELSE mainPc
            /\ startIgnored' = TRUE
            /\ UNCHANGED <<running, nworkers, wpc, consecutive_errors,
                           next_time>>
       ELSE /\ nworkers < MaxWorkers
            /\ running' = TRUE
            /\ nworkers' = nworkers + 1
            /\ wpc' = [wpc EXCEPT ![nworkers + 1] = "loop"]
            /\ consecutive_errors' =
                   [consecutive_errors EXCEPT ![nworkers + 1] = 0]
            /\ next_time' = [next_time EXCEPT ![nworkers + 1] = now]
            /\ mainPc' = IF byMain THEN "waiting" ELSE mainPc
            /\ UNCHANGED startIgnored
    /\ UNCHANGED <<include_stats, csv, now, samples, iter, wake, windows,
                   row, exitStatus, stopPc, reported>>
    /\ UNCHANGED <<stopIgnored, stopAt, abandon, lastWritten,
                   streak, fatal, skipped, polledAfterStop>>
    /\ UNCHANGED aggVars

(* The main thread runs its own code only when no signal handler is
   running on it. *)
MainRuns == Alive /\ stopPc["main"] = "idle"

(* main(), line 195: logger.start() *)
StartMain ==
    /\ MainRuns
    /\ mainPc = "ready"
    /\ start(TRUE)

(* start() called by another thread while the run is on *)
StartWhileRunning ==
    /\ Alive
    /\ running
    /\ start(FALSE)

(* start() called again by the caller to whom the first call returned *)
StartAfterStop ==
    /\ MainRuns
    /\ mainPc = "returned"
    /\ ~running
    /\ start(TRUE)

(* lines 152-155: while self.running: time.sleep(1) ends.  After a
   KeyboardInterrupt the loop is left through the except clause, when its
   stop() has returned: self.running is False by then, as it is when the
   loop ends by itself. *)
MainWaitEnd ==
    /\ MainRuns
    /\ mainPc = "waiting"
    /\ ~running
    /\ mainPc' = "returned"
    /\ UNCHANGED <<running, include_stats, csv, now, nworkers, wpc, samples,
                   iter, consecutive_errors, next_time, wake, windows, row,
                   exitStatus, stopPc, reported>>
    /\ UNCHANGED histVars
    /\ UNCHANGED aggVars

(* main(), lines 191-201: start() returned, main() returns and the process
   exits with status 0; its daemon worker thread ends with it. *)
exit_status_of_main == 0

MainExit ==
    /\ MainRuns
    /\ mainPc = "returned"
    /\ mainPc' = "exited"
    /\ exitStatus' = exit_status_of_main
    /\ UNCHANGED <<running, include_stats, csv, now, nworkers, wpc, samples,
                   iter, consecutive_errors, next_time, wake, windows, row,
                   stopPc, reported>>
    /\ UNCHANGED histVars
    /\ UNCHANGED aggVars

---------------------------------------------------------------------------
(* CSVLightLogger.stop, lines 157-171, and its callers: _signal_handler
   (lines 53-55, for SIGINT and SIGTERM) and the KeyboardInterrupt handler
   of start() (lines 154-155), both on the main thread, and a direct call,
   by another thread.  Each of the two threads has at most one call in
   progress; the calls of the two interleave. *)

StopCallers == {"main", "other"}

TriggersOf(c) ==
    IF c = "main" THEN {"SIGINT", "SIGTERM", "KeyboardInterrupt"}
    ELSE {"call"}

(* Lines 158-159 left out: stop() always shuts down *)
stop_never_returns_early(run) == FALSE

(* line 158: if not self.running: return *)
stop_returns_early(run) == ~run

SamplingPcs == {"poll", "delay"}

(* lines 53-55, 154-155, 157-160: the trigger arrives and stop() is called *)
StopCall(c, trigger) ==
    /\ Alive
    /\ stopPc[c] = "idle"
    /\ trigger \in TriggersOf(c)
    /\ trigger = "KeyboardInterrupt" => mainPc = "waiting"
    /\ IF stop_returns_early(running)
       THEN /\ stopIgnored' = (stopIgnored \/ nworkers > 0)
            /\ UNCHANGED stopPc
       ELSE /\ stopPc' = [stopPc EXCEPT ![c] = "set"]
            /\ UNCHANGED stopIgnored
    /\ UNCHANGED <<running, include_stats, csv, now, nworkers, wpc, samples,
                   iter, consecutive_errors, next_time, wake, windows, row,
                   mainPc, exitStatus, reported>>
    /\ UNCHANGED <<startIgnored, stopAt, abandon, lastWritten, streak,
                   fatal, skipped, polledAfterStop>>
    /\ UNCHANGED aggVars

(* Line 161 left out: stop() prints its summary and leaves the flag set *)
StopSetWithoutClear(c) ==
    /\ Alive
    /\ stopPc[c] = "set"
    /\ stopPc' = [stopPc EXCEPT ![c] = "report"]
    /\ stopAt' = IF running /\ stopAt = -1 THEN now ELSE stopAt
    /\ UNCHANGED <<running, include_stats, csv, now, nworkers, wpc, samples,
                   iter, consecutive_errors, next_time, wake, windows, row,
                   mainPc, exitStatus, reported>>
    /\ UNCHANGED <<startIgnored, stopIgnored, abandon, lastWritten, streak,
                   fatal, skipped, polledAfterStop>>
    /\ UNCHANGED aggVars

(* line 161: self.running = False *)
StopSet(c) ==
    /\ Alive
    /\ stopPc[c] = "set"
    /\ running' = FALSE
    /\ stopPc' = [stopPc EXCEPT ![c] = "report"]
    /\ stopAt' = IF running /\ stopAt = -1 THEN now ELSE stopAt
    /\ abandon' = [w \in Workers |->
                     IF running /\ wpc[w] \in SamplingPcs
                     THEN windows[w] ELSE abandon[w]]
    /\ UNCHANGED <<include_stats, csv, now, nworkers, wpc, samples, iter,
                   consecutive_errors, next_time, wake, windows, row, mainPc,
                   exitStatus, reported>>
    /\ UNCHANGED <<startIgnored, stopIgnored, lastWritten, streak,
                   fatal, skipped, polledAfterStop>>
    /\ UNCHANGED aggVars

(* lines 162-171: the rows of the file are read and the summary printed;
   the total is printed when there is at least one data row. *)
StopReport(c) ==
    /\ Alive
    /\ stopPc[c] = "report"
    /\ stopPc' = [stopPc EXCEPT ![c] = "idle"]
    /\ reported' = Append(reported,
                          [has_total |-> Len(csv) > 0, total |-> Len(csv)])
    /\ UNCHANGED <<running, include_stats, csv, now, nworkers, wpc, samples,
                   iter, consecutive_errors, next_time, wake, windows, row,
                   mainPc, exitStatus>>
    /\ UNCHANGED histVars
    /\ UNCHANGED aggVars

---------------------------------------------------------------------------
(* One run of the logger, as main() drives it: one start() that spawns the
   worker, further start() calls while the run is on, stop requests at any
   time. *)

WorkerStep(w) ==
    \/ LoopCheck(w)
    \/ \E lux \in SensorLux : PollOk(w, lux)
    \/ PollFail(w)
    \/ DelayEnd(w)
    \/ \E d \in WriteDurations : BurstCheck(w, d)
    \/ WriteOk(w)
    \/ WriteFail(w)
    \/ ErrPauseEnd(w)
    \/ Deadline(w)
    \/ SleepEnd(w)

TimeStep ==
    /\ Sleepers # {}
    /\ Advance(EarliestWake - now)

Next ==
    \/ \E w \in Workers : WorkerStep(w)
    \/ TimeStep
    \/ StartMain
    \/ StartWhileRunning
    \/ MainWaitEnd
    \/ MainExit
    \/ \E c \in StopCallers : \E trigger \in Triggers : StopCall(c, trigger)
    \/ \E c \in StopCallers : StopSet(c)
    \/ \E c \in StopCallers : StopReport(c)

Spec == Init /\ [][Next]_vars

(* The steps the scheduler and the clock owe the program: a worker's
   next statement, the end of a sleep, the return of start() once the flag
   is clear, and the rest of a stop() under way.  The end of a burst is
   BurstEnds below. *)
Scheduled ==
    \/ \E w \in Workers :
           \/ LoopCheck(w)
           \/ \E lux \in SensorLux : PollOk(w, lux)
           \/ PollFail(w)
           \/ DelayEnd(w)
           \/ WriteOk(w)
           \/ WriteFail(w)
           \/ ErrPauseEnd(w)
           \/ Deadline(w)
           \/ SleepEnd(w)
    \/ TimeStep
    \/ MainWaitEnd
    \/ \E c \in StopCallers : StopSet(c) \/ StopReport(c)

(* A worker at line 104 goes on: the steps of BurstCheck, told by where
   they leave the worker. *)
BurstEnds ==
    \E w \in Workers :
        /\ Alive
        /\ wpc[w] = "check"
        /\ \E pc \in {"stopped", "writing", "deadline"} :
               wpc' = [wpc EXCEPT ![w] = pc]

(* One run in which the threads are scheduled and time passes.  Nothing
   says that a stop request comes, nor that the process exits: main() may
   return at once after start() or the caller may keep the process. *)
FairSpec == Spec /\ WF_vars(Scheduled) /\ WF_wpc(BurstEnds)

(* Several runs of one logger: the caller starts it again after a stop.
   The clock stops at RestartHorizon, a little more than one
   logging_interval after the first start: time enough for a worker to go
   through its deadline sleep and wake up in the next run. *)
TimeStepUntilHorizon ==
    /\ TimeStep
    /\ now' <= RestartHorizon

(* The worker's steps when the sensor and the file do not fail and the
   append takes no time *)
WorkerStepNoFailure(w) ==
    \/ LoopCheck(w)
    \/ \E lux \in SensorLux : PollOk(w, lux)
    \/ BurstCheck(w, 0)
    \/ WriteOk(w)
    \/ Deadline(w)
    \/ SleepEnd(w)

(* The stop requests come by signal or KeyboardInterrupt, on the main
   thread. *)
NextRestart ==
    \/ \E w \in Workers : WorkerStepNoFailure(w)
    \/ TimeStepUntilHorizon
    \/ StartMain
    \/ StartAfterStop
    \/ MainWaitEnd
    \/ MainExit
    \/ \E trigger \in Triggers : StopCall("main", trigger)
    \/ StopSet("main")
    \/ StopReport("main")

SpecRestart == Init /\ [][NextRestart]_vars

---------------------------------------------------------------------------
(* The program run again on the same file.  After the process has exited,
   main() is launched anew: CSVLightLogger.__init__ runs again, and its
   _initialize_csv opens the file of the earlier run, which is the same file
   when -f names it or the date of the default name has not changed. *)

(* lines 42-48: open(self.csv_path, 'w') empties the file and the header row
   is written; rows are the data rows the file held. *)
initialize_csv(rows) == << >>

(* main(), lines 192-194, in a new process; time is counted from the
   launch. *)
Relaunch ==
    /\ mainPc = "exited"
    /\ csv' = initialize_csv(csv)
    /\ running' = FALSE
    /\ include_stats' = TRUE
    /\ now' = 0
    /\ nworkers' = 0
    /\ wpc' = [w \in Workers |-> "none"]
    /\ samples' = [w \in Workers |-> << >>]
    /\ iter' = NoWorker
    /\ consecutive_errors' = NoWorker
    /\ next_time' = NoWorker
    /\ wake' = NoWorker
    /\ windows' = NoWorker
    /\ row' = [w \in Workers |-> NoRow]
    /\ mainPc' = "ready"
    /\ exitStatus' = -1
    /\ stopPc' = [c \in StopCallers |-> "idle"]
    /\ reported' = << >>
    /\ startIgnored' = FALSE
    /\ stopIgnored' = FALSE
    /\ stopAt' = -1
    /\ abandon' = NoWorker
    /\ lastWritten' = NoWorker
    /\ streak' = NoWorker
    /\ fatal' = [w \in Workers |-> FALSE]
    /\ skipped' = NoWorker
    /\ polledAfterStop' = [w \in Workers |-> FALSE]
    /\ UNCHANGED aggVars

NextRelaunch ==
    \/ \E w \in Workers : WorkerStepNoFailure(w)
    \/ TimeStepUntilHorizon
    \/ StartMain
    \/ MainWaitEnd
    \/ MainExit
    \/ \E trigger \in Triggers : StopCall("main", trigger)
    \/ StopSet("main")
    \/ StopReport("main")
    \/ Relaunch

SpecRelaunch == Init /\ [][NextRelaunch]_vars

---------------------------------------------------------------------------
(* One run with a sensor that returns varied values, outliers among them,
   and may fail; the file does not fail, no stop request comes, and
   statistics are on or off (--no-stats).  BurstLux holds 97.5, 100, 102.5
   and 5000 lx: raw counts 117, 120, 123 and 6000 of the sensor, divided by
   1.2. *)

BurstLux == {195, 200, 205, 10000}

InitBursts ==
    /\ \E stats \in BOOLEAN : InitProgram(stats)
    /\ InitHistory
    /\ readings = << >>
    /\ result = NoAgg
    /\ aggPc = "unused"

WorkerStepBursts(w) ==
    \/ LoopCheck(w)
    \/ \E lux \in BurstLux : PollOk(w, lux)
    \/ PollFail(w)
    \/ DelayEnd(w)
    \/ BurstCheck(w, 0)
    \/ WriteOk(w)
    \/ Deadline(w)
    \/ SleepEnd(w)

NextBursts ==
    \/ \E w \in Workers : WorkerStepBursts(w)
    \/ TimeStep
    \/ StartMain

SpecBursts == InitBursts /\ [][NextBursts]_vars

---------------------------------------------------------------------------
(* The aggregator on its own: _aggregate_readings applied to every list of
   at most MaxLen readings drawn from InputLux.  InputLux holds a tight
   cluster (98, 100, 101, 102 lx), two far values (77.5 and 5000 lx) and
   -0.5 lx; 77.5 lx and -0.5 lx, and the medians 100.5 and 101.5 lx of
   pairs, are ties of round(). *)

BoundedReadings == UNION {[1..n -> InputLux] : n \in 0..MaxLen}

AggInit ==
    /\ InitProgram(TRUE)
    /\ InitHistory
    /\ readings \in BoundedReadings
    /\ result = NoAgg
    /\ aggPc = "called"

(* agg = self._aggregate_readings(valid), line 108 *)
Aggregate ==
    /\ aggPc = "called"
    /\ result' = aggregate_readings(readings)
    /\ aggPc' = "done"
    /\ UNCHANGED readings
    /\ UNCHANGED progVars
    /\ UNCHANGED histVars

AggNext == Aggregate

AggSpec == AggInit /\ [][AggNext]_vars

---------------------------------------------------------------------------
(* Properties *)

(* C1: when a stop request takes effect (line 161) while worker w is in the
   sampling burst of a window -- between the start of the burst and the end
   of its for loop -- the worker finishes the burst, reads the flag at line
   104 and leaves the loop: it appends no row for that window and begins no
   later window. *)
C1_StopDuringSamplingDropsBurst ==
    \A w \in Workers :
        abandon[w] > 0 =>
            /\ wpc[w] \in SamplingPcs \cup {"check", "stopped"}
            /\ windows[w] = abandon[w]
            /\ lastWritten[w] < abandon[w]

(* A worker that was stopped in the burst of its second window, with
   samples in hand, has left the loop; its first window was written. *)
C1_Witness ==
    \E w \in Workers :
        /\ abandon[w] = 2
        /\ lastWritten[w] = 1
        /\ samples[w] # << >>
        /\ wpc[w] = "stopped"

(* C2: stop() waits for the worker and then reports the total, so no row is
   appended after a total was reported: every total that stop() printed is
   the number of rows in the file. *)
C2_ReportedTotalIsFinal ==
    \A k \in 1..Len(reported) :
        reported[k].has_total => reported[k].total = Len(csv)

(* C3: the worker halts for sensor errors exactly when max_consecutive_errors
   polls in a row have failed.  streak counts the failed polls since the last
   successful one (over window boundaries); the program's counter equals it
   and never exceeds the maximum; line 100 has run exactly when the streak
   has reached the maximum; and from then on the worker polls no more (the
   streak stands), appends no row for the window and leaves the loop. *)
C3_HaltExactlyAtThreshold ==
    \A w \in Workers :
        /\ consecutive_errors[w] = streak[w]
        /\ streak[w] <= max_consecutive_errors
        /\ fatal[w] <=> (wpc[w] # "none" /\ streak[w] = max_consecutive_errors)
        /\ fatal[w] =>
               /\ ~running
               /\ wpc[w] \in {"check", "stopped"}
               /\ lastWritten[w] < windows[w]

(* The threshold was reached in the second window by a streak that began in
   the first one, after a successful poll of the first window, whose row was
   written; the worker has left the loop. *)
C3_Witness ==
    \E w \in Workers :
        /\ fatal[w]
        /\ windows[w] = 2
        /\ lastWritten[w] = 1
        /\ wpc[w] = "stopped"

(* C4: a run that ended by the fatal error threshold, with no stop request,
   ends the process with a non-zero status. *)
C4_FatalHaltExitsNonZero ==
    (mainPc = "exited" /\ stopAt = -1 /\ \E w \in Workers : fatal[w])
        => exitStatus # 0

(* C5: once a stop request has taken effect, a worker that has not left its
   loop leaves it within one sample_delay. *)
C5_StoppedWithinOneSampleDelay ==
    \A w \in Workers :
        (Alive /\ stopAt >= 0 /\ wpc[w] \notin {"none", "stopped"})
            => now - stopAt <= sample_delay

(* C6: for every non-empty list of readings the aggregator returns a
   result (a representative and a filtered list, not None), the filtered
   list is not empty, and it holds readings of the input only. *)
C6_FilteredNeverEmpty ==
    (aggPc = "done" /\ readings # << >>) =>
        /\ ~result.raised
        /\ ~result.none
        /\ result.filtered # << >>
        /\ Len(result.filtered) <= Len(readings)
        /\ \A k \in 1..Len(result.filtered) :
               \E j \in 1..Len(readings) : result.filtered[k] = readings[j]

(* A burst of MaxLen readings of which some, not all, were filtered out *)
C6_Witness ==
    /\ aggPc = "done"
    /\ Len(readings) = MaxLen
    /\ result.filtered # << >>
    /\ Len(result.filtered) < Len(readings)

(* The burst [100, 102, 98, 101, 5000] lx and what is left of it without
   5000 lx *)
ExampleBurst == <<200, 204, 196, 202, 10000>>

ExampleFiltered == <<200, 204, 196, 202>>

(* v is the r-th smallest value of s: at least r values of s are at most v,
   and at least Len(s) - r + 1 are at least v. *)
HasRank(s, v, r) ==
    /\ \E k \in 1..Len(s) : s[k] = v
    /\ Cardinality({k \in 1..Len(s) : s[k] <= v}) >= r
    /\ Cardinality({k \in 1..Len(s) : s[k] >= v}) >= Len(s) - r + 1

(* m_x2 is twice the median of s: the middle value twice, or the sum of the
   two middle values. *)
IsMedian_x2(s, m_x2) ==
    \E a, b \in {s[k] : k \in 1..Len(s)} :
        /\ HasRank(s, a, (Len(s) + 1) \div 2)
        /\ HasRank(s, b, (Len(s) \div 2) + 1)
        /\ m_x2 = a + b

(* The integer r (lux) is nearest to the median m_x2 / 4 (lux), and is the
   even one of the two when they are equally near. *)
IsNearestTieEven(r, m_x2) ==
    /\ Abs(4 * r - m_x2) <= 2
    /\ Abs(4 * r - m_x2) = 2 => r % 2 = 0

(* C7: for every non-empty burst the representative is the median of the
   filtered values rounded to the nearest integer, a tie always to the even
   one; a single reading is its own filtered list; and of the burst
   [100, 102, 98, 101, 5000] the value 5000 is rejected and the
   representative is 100, the median 100.5 of the other four, rounded. *)
C7_RepresentativeIsRoundedMedian ==
    (aggPc = "done" /\ readings # << >>) =>
        /\ \E a, b \in {result.filtered[k] : k \in 1..Len(result.filtered)} :
               /\ IsMedian_x2(result.filtered, a + b)
               /\ IsNearestTieEven(result.rep, a + b)
        /\ Len(readings) = 1 => result.filtered = readings
        /\ readings = ExampleBurst =>
               /\ result.filtered = ExampleFiltered
               /\ result.rep = 100

(* The example burst, aggregated: its median 100.5 is a tie *)
C7_Witness ==
    /\ aggPc = "done"
    /\ readings = ExampleBurst
    /\ result.filtered = ExampleFiltered
    /\ result.rep = 100

(* C8: at the deadline step of a window (lines 132-137), with the time left
   until the deadline, next_time + logging_interval - now: when none is left
   the worker does not sleep and the deadline base becomes the current time;
   when some is left the worker sleeps until the deadline, which becomes the
   base.  Either way the new base is not behind the clock and at most one
   logging_interval ahead of it. *)
C8_OverrunRebasesDeadline ==
    [][\A w \in Workers :
          (wpc[w] = "deadline" /\ wpc'[w] # "deadline") =>
              LET left == next_time[w] + logging_interval - now
              IN  /\ left <= 0 =>
                         /\ wpc'[w] = "loop"
                         /\ next_time'[w] = now
                  /\ left > 0 =>
                         /\ wpc'[w] = "sleep"
                         /\ wake'[w] = next_time[w] + logging_interval
                         /\ next_time'[w] = wake'[w]
                  /\ now' = now
                  /\ now <= next_time'[w]
                  /\ next_time'[w] <= now + logging_interval]_vars

(* The first window overran (its write took SlowWrite), its sleep was
   skipped and the base moved to the clock; the second window, in time, is
   followed by a sleep until one logging_interval after that base. *)
C8_Witness ==
    \E w \in Workers :
        /\ skipped[w] = 1
        /\ windows[w] = 2
        /\ wpc[w] = "sleep"
        /\ wake[w] = next_time[w]
        /\ next_time[w] > SlowWrite + logging_interval
        /\ now < wake[w]

(* C9: a start() while self.running is set spawns no worker and changes
   nothing of the program's state; a worker is spawned only by a start()
   that finds the flag clear, which sets it and spawns exactly one. *)
C9_StartWhileRunningIsNoOp ==
    [][/\ running =>
              /\ nworkers' = nworkers
              /\ \A w \in Workers : wpc[w] = "none" => wpc'[w] = "none"
       /\ startIgnored' # startIgnored => (running /\ UNCHANGED progVars)
       /\ nworkers' # nworkers =>
              /\ ~running
              /\ running'
              /\ nworkers' = nworkers + 1
              /\ wpc'[nworkers'] = "loop"
              /\ \A w \in Workers \ {nworkers'} : wpc'[w] = wpc[w]]_vars

(* start() was called during the run and returned at line 144; there is
   still one worker, in its loop. *)
C9_Witness ==
    /\ startIgnored
    /\ running
    /\ nworkers = 1
    /\ wpc[1] \notin {"none", "stopped"}

(* C10: a stop request, by whichever trigger, that finds self.running
   clear begins no shutdown and changes nothing of the program's state; and
   once the flag is clear and no stop() is under way, no summary is printed
   any more. *)
C10_StopWhenStoppedIsNoOp ==
    [][/\ ~running =>
              \A c \in StopCallers : stopPc[c] = "idle" => stopPc'[c] = "idle"
       /\ stopIgnored' # stopIgnored => (~running /\ UNCHANGED progVars)
       /\ (~running /\ \A c \in StopCallers : stopPc[c] = "idle") =>
              reported' = reported]_vars

(* A stop() has printed its summary, a later stop request returned at line
   159, and there is still that one summary. *)
C10_Witness ==
    /\ stopIgnored
    /\ ~running
    /\ Len(reported) = 1
    /\ \A c \in StopCallers : stopPc[c] = "idle"

(* C11, as stated: a window that is over, whose burst was not cut by a stop
   or a fatal halt (the worker passed line 104), has appended exactly one
   row when the burst has a successful reading, and none when it has
   none. *)
C11_OneRowPerSampledWindow ==
    \A w \in Workers :
        (wpc[w] \in {"deadline", "sleep", "errpause"}) =>
            (lastWritten[w] = windows[w] <=> samples[w] # << >>)

(* C11, amended: no window appends more than one row (the file never holds
   more rows than windows that wrote); a window that is over and whose
   append did not raise has appended a row exactly when its burst has a
   successful reading; a window whose append raised has appended none; and
   a window with no reading ends at the deadline step with the run still
   on and no fatal halt. *)
C11_OneRowUnlessAppendFails ==
    /\ Len(csv) <= SeqSum(lastWritten)
    /\ \A w \in Workers :
           /\ lastWritten[w] <= windows[w]
           /\ (wpc[w] \in {"deadline", "sleep"}) =>
                  (lastWritten[w] = windows[w] <=> samples[w] # << >>)
           /\ wpc[w] = "errpause" =>
                  (lastWritten[w] < windows[w] /\ samples[w] # << >>)
           /\ (wpc[w] = "deadline" /\ samples[w] = << >>) =>
                  (~fatal[w] /\ (running \/ stopAt >= 0))

(* A second window with no reading at all is over, with no row, after a
   first window that wrote one; the run is still on. *)
C11_Witness ==
    \E w \in Workers :
        /\ wpc[w] = "sleep"
        /\ windows[w] = 2
        /\ lastWritten[w] = 1
        /\ samples[w] = << >>
        /\ Len(csv) = 1
        /\ running

(* C12: the worker reads the flag before each poll and before each sleep,
   so it begins no poll once a stop request has cleared the flag. *)
C12_NoPollAfterStop ==
    \A w \in Workers : ~polledAfterStop[w]

(* C13: whatever the sequence of start() and stop() calls, a worker that
   was asked to stop never resumes sampling.  Worker 1 is the worker of the
   first run, the one the first stop request (at stopAt) was for: once that
   request has taken effect, it begins no window after those it has
   sampled. *)
C13_StoppedWorkerNeverResumes ==
    [][(stopAt >= 0 /\ wpc[1] = "loop" /\ windows[1] > 0)
           => wpc'[1] # "poll"]_vars

(* C14: in a run with no overrun the k-th window starts exactly
   (k - 1) * logging_interval after the first, which starts at time 0, when
   the worker is spawned.  The worker is at the start of its window
   windows[w] when it is about to make the first poll; no deadline was
   missed so far when no deadline step skipped its sleep and the clock is
   not past the start the window is due at. *)
C14_WindowsStartOnTheGrid ==
    \A w \in Workers :
        (/\ wpc[w] = "poll"
         /\ skipped[w] = 0
         /\ now <= (windows[w] - 1) * logging_interval)
            => now = (windows[w] - 1) * logging_interval

(* The values of a sequence *)
Values(s) == {s[k] : k \in 1..Len(s)}

(* C15: for a burst of two or more values, filtered is the input without
   the values whose distance from the burst median exceeds the threshold,
   in the input's order: with m the median, devs the distances from it and
   mad their median, the k-th reading is kept exactly when devs[k] <= 2.0
   (mad = 0) or devs[k] <= 3.0 * 1.4826 * mad (mad > 0); and a burst of
   equal values is kept whole.  (dev and m in quarters of a lux, mad in
   eighths.) *)
C15_FilteredIsThresholdSubsequence ==
    (aggPc = "done" /\ Len(readings) >= 2) =>
        /\ \E m \in {a + b : a, b \in Values(readings)} :
               /\ IsMedian_x2(readings, m)
               /\ LET devs == [k \in 1..Len(readings) |->
                                   Abs(2 * readings[k] - m)]
                  IN  \E mad \in {c + d : c, d \in Values(devs)} :
                          /\ IsMedian_x2(devs, mad)
                          /\ LET kept == {k \in 1..Len(readings) :
                                             IF mad = 0
                                             THEN devs[k] <= 8
                                             ELSE devs[k] * 20000
                                                      <= 44478 * mad}
                             IN  /\ Len(result.filtered) = Cardinality(kept)
                                 /\ \A k \in kept :
                                        result.filtered[Cardinality(
                                            {i \in kept : i <= k})]
                                            = readings[k]
        /\ Cardinality(Values(readings)) = 1 => result.filtered = readings

(* [100, 100, 100, 101, 77.5]: the median is 100 and mad is 0, so the
   threshold is 2.0; 101 is kept and 77.5 is not. *)
C15_Witness ==
    /\ aggPc = "done"
    /\ readings = <<200, 200, 200, 202, 155>>
    /\ result.filtered = <<200, 200, 200, 202>>

(* C16: the step in which the append of a window's row raises changes
   neither self.running nor the file nor consecutive_errors; during the
   pause that follows, the window has no row, the run is on unless a stop
   request cleared the flag, no fatal halt has occurred and the counter
   still is the number of failed polls since the last successful one. *)
C16_AppendFailureKeepsRunning ==
    /\ [](\A w \in Workers :
             wpc[w] = "errpause" =>
                 /\ lastWritten[w] < windows[w]
                 /\ running \/ stopAt >= 0
                 /\ ~fatal[w]
                 /\ consecutive_errors[w] = streak[w])
    /\ [][\A w \in Workers :
             (wpc[w] = "writing" /\ wpc'[w] = "errpause") =>
                 /\ running' = running
                 /\ csv' = csv
                 /\ consecutive_errors' = consecutive_errors
                 /\ windows' = windows]_vars

(* The append of the first window raised (the second window began before
   the first deadline, which only the pause after an error allows); the
   worker went on, and the row of its second window is the one row of the
   file; the run is on. *)
C16_Witness ==
    \E w \in Workers :
        /\ windows[w] = 2
        /\ lastWritten[w] = 2
        /\ Len(csv) = 1
        /\ now < logging_interval
        /\ running

(* The filtered list of a burst of at least one reading (lines 69-80) *)
FilteredOf(burst) ==
    IF Len(burst) = 1 THEN burst ELSE filter_readings(burst)

(* C17: a row written with statistics on takes them from the filtered part
   of its window's burst.  Right after worker w has appended the row of its
   window (the last row of the file; samples[w] is still that window's
   burst), with f the filtered part of the burst: sample_count is the length
   of f and lies in 1..readings_per_interval; min and max are the least and
   the greatest value of f, rounded; median is the median of f, rounded, and
   equals the representative column; min <= median <= max; and the spread
   is 0 when sample_count is 1. *)
C17_StatsFromFilteredBurst ==
    \A w \in Workers :
        (wpc[w] \in {"deadline", "sleep"} /\ lastWritten[w] = windows[w]) =>
            LET r == csv[Len(csv)]
                f == FilteredOf(samples[w])
            IN  r.stats =>
                    /\ r.count = Len(f)
                    /\ 1 <= r.count /\ r.count <= readings_per_interval
                    /\ \E lo, hi \in Values(f) :
                           /\ \A v \in Values(f) : lo <= v /\ v <= hi
                           /\ IsNearestTieEven(r.vmin, 2 * lo)
                           /\ IsNearestTieEven(r.vmax, 2 * hi)
                    /\ \E m \in {a + b : a, b \in Values(f)} :
                           /\ IsMedian_x2(f, m)
                           /\ IsNearestTieEven(r.median, m)
                    /\ r.median = r.lux
                    /\ r.vmin <= r.median /\ r.median <= r.vmax
                    /\ r.count = 1 => r.stdev = 0

(* A burst of 100, 100 and 5000 lx was written with statistics: two samples
   counted, and a maximum of 100, not of 5000. *)
C17_Witness ==
    \E w \in Workers :
        /\ wpc[w] = "deadline"
        /\ lastWritten[w] = windows[w]
        /\ samples[w] = <<200, 10000, 200>>
        /\ csv[Len(csv)].stats
        /\ csv[Len(csv)].count = 2
        /\ csv[Len(csv)].vmax = 100

(* C18: the log is append-only: whatever the step, the rows the file held
   before it are the first rows it holds after it. *)
C18_LogIsAppendOnly ==
    [][/\ Len(csv) <= Len(csv')
       /\ SubSeq(csv', 1, Len(csv)) = csv]_vars

(* C19: once a stop request has cleared the flag, or the fatal error
   threshold was reached, every worker eventually leaves its loop, unless
   the process exits first; and the blocking start() call eventually
   returns. *)
C19_WorkerEventuallyStops ==
    /\ \A w \in Workers :
           ((stopAt >= 0 \/ fatal[w]) /\ wpc[w] # "none")
               ~> (wpc[w] = "stopped" \/ ~Alive)
    /\ (stopAt >= 0 \/ \E w \in Workers : fatal[w])
           ~> (mainPc \in {"returned", "exited"})

(* A worker that was in the pause after a failed append when the stop
   request came has left its loop, with the process alive. *)
C19_Witness ==
    \E w \in Workers :
        /\ stopAt >= 0
        /\ wpc[w] = "stopped"
        /\ lastWritten[w] < windows[w]
        /\ samples[w] # << >>
        /\ abandon[w] = 0
        /\ ~fatal[w]
        /\ Alive

(* C20: whatever the outcome of a window that ended in time, the deadline
   has advanced by one logging_interval when the worker is back at line 87,
   and the worker is not there before it.  The worker is spawned at time 0
   with next_time = 0, so with no overrun so far (no deadline step skipped
   its sleep) the deadline after windows[w] windows is
   windows[w] * logging_interval. *)
C20_DeadlineAdvancesEveryWindow ==
    \A w \in Workers :
        (wpc[w] = "loop" /\ skipped[w] = 0)
            => /\ next_time[w] = windows[w] * logging_interval
               /\ now >= next_time[w]

=============================================================================
